---- MODULE Spec2Model ----
(***************************************************************************)
(* The sqlite queue storage module of gearmand                            *)
(* (libgearman/queue_libsqlite3.c): the handle gearman_queue_sqlite_st,   *)
(* its init/deinit, the transaction helpers _sqlite_lock/_sqlite_commit   *)
(* and the four queue callbacks add, flush, done and replay, run against  *)
(* a store that keeps committed rows apart from the rows the open         *)
(* connection sees, so that a crash discards an uncommitted transaction.  *)
(*                                                                         *)
(* Every handler is one action.  Its inputs are the call's arguments and  *)
(* `f`, the driver call (or allocation) of this invocation that fails;    *)
(* NoFail when none does.  A handler returns at its first failure, so one *)
(* failure point per invocation covers every path of the code.            *)
(***************************************************************************)
EXTENDS Integers, Sequences, FiniteSets, Bags, TLC

\* How many times the process may crash and be restarted.
MaxCrash == 1

GEARMAN_QUEUE_QUERY_BUFFER == 256
SQLITE_MAX_TABLE_SIZE == 256

\* "gearman_queue", as bytes
GEARMAN_QUEUE_SQLITE_DEFAULT_TABLE ==
  <<103, 101, 97, 114, 109, 97, 110, 95, 113, 117, 101, 117, 101>>

\* "GEARMAN_QUEUE": a table an earlier configuration named in upper case
UpperTable == <<71, 69, 65, 82, 77, 65, 78, 95, 81, 85, 69, 85, 69>>

\* "Gearman_Queue": a value given to the option "table"
MixedTable == <<71, 101, 97, 114, 109, 97, 110, 95, 81, 117, 101, 117, 101>>

\* "jobs": a table of the store that is not the queue's
OtherTable == <<106, 111, 98, 115>>

GEARMAN_SUCCESS == "GEARMAN_SUCCESS"
GEARMAN_QUEUE_ERROR == "GEARMAN_QUEUE_ERROR"
GEARMAN_MEMORY_ALLOCATION_FAILURE == "GEARMAN_MEMORY_ALLOCATION_FAILURE"
\* a second failure status the server's add callback can return to replay
GEARMAN_JOB_QUEUE_FULL == "GEARMAN_JOB_QUEUE_FULL"

SQLITE_OK == "SQLITE_OK"
SQLITE_ERROR == "SQLITE_ERROR"

\* gearman_job_priority_t
GEARMAN_JOB_PRIORITY_HIGH == 0
GEARMAN_JOB_PRIORITY_NORMAL == 1
GEARMAN_JOB_PRIORITY_LOW == 2

\* The jobs the server passes to add: two under the same unique key, with
\* every priority, an empty payload and one holding the bytes 0 and 255, and a
\* function name with a zero byte in it.
Job(u, fn, p, d) == [unique |-> u, function_name |-> fn, priority |-> p, data |-> d]
Jobs ==
  {Job(<<106>>, <<114, 0>>, GEARMAN_JOB_PRIORITY_HIGH, <<0, 255>>),
   Job(<<106>>, <<114, 0>>, GEARMAN_JOB_PRIORITY_NORMAL, <<>>),
   Job(<<107>>, <<114, 0>>, GEARMAN_JOB_PRIORITY_LOW, <<>>)}
Uniques == {j.unique : j \in Jobs}

\* The failure points of one invocation.
NoFail == [stmt |-> "none", call |-> "none"]
Fail(s, c) == [stmt |-> s, call |-> c]

VARIABLES
  catalog,    \* sqlite_master: the tables of the store, [name, columns]
  disk,       \* the committed rows of the queue table (a bag)
  rows,       \* the rows the connection sees: disk plus uncommitted writes
  db_trans,   \* the driver has a transaction open on the connection
  queue,      \* gearman_queue_sqlite_st: db, table, query_size, in_trans
  gearman,    \* gearman_st: queue_fn_arg and the four queue callbacks
  heap,       \* the handle's and the query buffer's allocation
  open_sth,   \* statements prepared and not yet finalized
  pc,         \* "down", "up" (init succeeded), "failed" (init returned an error)
  last,       \* what the last call was, got and returned
  delivered,  \* the add_fn calls of the last replay, in order: [call, gret]
  acked,      \* unique -> the job of its last successful add, no done invoked since
  removed,    \* uniques whose last done succeeded, no add invoked since
  epoch       \* crashes so far

vars == <<catalog, disk, rows, db_trans, queue, gearman, heap, open_sth, pc,
          last, delivered, acked, removed, epoch>>

----------------------------------------------------------------------------
\* libc

tolower(c) == IF c \in 65..90 THEN c + 32 ELSE c

\* 0 when the two names are equal up to the case of their letters
strcasecmp(a, b) ==
  IF Len(a) = Len(b) /\ \A i \in 1..Len(a) : tolower(a[i]) = tolower(b[i])
  THEN 0 ELSE 1

\* snprintf(str, size, "%s"-format): the text is written up to size - 1
\* bytes and a terminating zero; the return is the length of the whole text.
Min(a, b) == IF a < b THEN a ELSE b
snprintf(size, text) ==
  [ret |-> Len(text), str |-> SubSeq(text, 1, Min(Len(text), size - 1))]

----------------------------------------------------------------------------
\* The table the CREATE of init makes.

\* The table without its key: unique_key declared TEXT only.
CreateTableSQL_nokey ==
  [unique_key |-> "TEXT", function_name |-> "TEXT",
   priority |-> "INTEGER", data |-> "BLOB"]

CreateTableSQL ==
  [unique_key |-> "TEXT PRIMARY KEY", function_name |-> "TEXT",
   priority |-> "INTEGER", data |-> "BLOB"]

\* The columns of a table of the store that is not the queue's.
OtherColumns ==
  [unique_key |-> "TEXT", function_name |-> "TEXT",
   priority |-> "INTEGER", data |-> "BLOB"]

----------------------------------------------------------------------------
\* The driver (sqlite3), as the module's calls see it.  `m` is the machine
\* state a handler threads through its calls: the handle q, the rows, the
\* driver's transaction, the live statements, whether a driver call of this
\* invocation failed, and the statements it issued.

Start ==
  [q |-> queue, rows |-> rows, disk |-> disk, dbt |-> db_trans,
   sth |-> open_sth, dfail |-> FALSE, sql |-> {}, cat |-> catalog,
   g |-> gearman, h |-> heap]

TableStmts == {"INSERT", "DELETE", "SELECT"}

MTables(m) == {e \in m.cat : strcasecmp(e.name, m.q.table) = 0}

\* The driver resolves a table name without regard to case.
\* sqlite3_prepare: fails when told to, when the statement names a table the
\* catalog does not hold, and for a CREATE of a table it already holds.
sqlite3_prepare(m, stmt, f) ==
  /\ f # Fail(stmt, "prepare")
  /\ stmt \in TableStmts => MTables(m) # {}
  /\ stmt = "CREATE" => MTables(m) = {}

\* A stored value carries its type: sqlite3_bind_text and sqlite3_bind_blob
\* bind the first n bytes of the value, sqlite3_bind_int an integer.
sqlite3_bind_text(value, n) == [type |-> "TEXT", bytes |-> SubSeq(value, 1, n)]
sqlite3_bind_blob(value, n) == [type |-> "BLOB", bytes |-> SubSeq(value, 1, n)]
sqlite3_bind_int(v) == [type |-> "INTEGER", int |-> v]

\* Whether the bag of rows B holds a row under the key `unique` (bytes).
KeyIn(B, unique) == \E r \in BagToSet(B) : r.unique_key.bytes = unique

\* DELETE with the key compared to the wrong column
DeleteFrom_wrong_column(B, key) ==
  [r \in {x \in BagToSet(B) : x.function_name # key} |-> B[r]]

\* DELETE without its WHERE clause
DeleteFrom_all(B, key) == EmptyBag

\* DELETE ... WHERE unique_key=?
DeleteFrom(B, key) ==
  [r \in {x \in BagToSet(B) : x.unique_key # key} |-> B[r]]

\* Outside a transaction the driver commits each statement as it runs.
Autocommit(m) == IF m.dbt THEN m ELSE [m EXCEPT !.disk = m.rows]

\* sqlite3_step of a statement that returns no rows: SQLITE_DONE (ok) or an
\* error.  A failed statement changes nothing.
sqlite3_step(m, stmt, arg, f) ==
  LET forced ==
        CASE stmt = "BEGIN" -> m.dbt
          [] stmt = "COMMIT" -> ~m.dbt
          [] stmt = "INSERT" ->
               /\ \E e \in MTables(m) : e.columns.unique_key = "TEXT PRIMARY KEY"
               /\ KeyIn(m.rows, arg.unique_key.bytes)
          [] OTHER -> FALSE
  IN
  IF f = Fail(stmt, "step") \/ forced
  THEN [ok |-> FALSE, m |-> [m EXCEPT !.dfail = TRUE]]
  ELSE [ok |-> TRUE,
        m |-> CASE stmt = "BEGIN" -> [m EXCEPT !.dbt = TRUE]
                [] stmt = "COMMIT" -> [m EXCEPT !.disk = m.rows, !.dbt = FALSE]
                [] stmt = "INSERT" ->
                     Autocommit([m EXCEPT !.rows = @ (+) SetToBag({arg})])
                [] stmt = "DELETE" ->
                     Autocommit([m EXCEPT !.rows = DeleteFrom(@, arg)])
                [] stmt = "CREATE" ->
                     [m EXCEPT !.cat = @ \cup {[name |-> m.q.table, columns |-> arg]}]
                [] OTHER -> m]

sqlite3_finalize(m) == [m EXCEPT !.sth = @ - 1]

----------------------------------------------------------------------------
\* Private definitions

\* The statement texts add, done and replay format, as bytes.
\* "INSERT INTO "
InsertHead ==
  <<73, 78, 83, 69, 82, 84, 32, 73, 78, 84, 79, 32>>
\* " (priority,unique_key,function_name,data) VALUES (?,?,?,?)"
InsertTail ==
  <<32, 40, 112, 114, 105, 111, 114, 105, 116, 121, 44, 117, 110, 105,
    113, 117, 101, 95, 107, 101, 121, 44, 102, 117, 110, 99, 116, 105,
    111, 110, 95, 110, 97, 109, 101, 44, 100, 97, 116, 97, 41, 32, 86, 65,
    76, 85, 69, 83, 32, 40, 63, 44, 63, 44, 63, 44, 63, 41>>
\* "DELETE FROM "
DeleteHead ==
  <<68, 69, 76, 69, 84, 69, 32, 70, 82, 79, 77, 32>>
\* " WHERE unique_key=?"
DeleteTail ==
  <<32, 87, 72, 69, 82, 69, 32, 117, 110, 105, 113, 117, 101, 95, 107,
    101, 121, 61, 63>>
\* "SELECT unique_key,function_name,priority,data FROM "
SelectHead ==
  <<83, 69, 76, 69, 67, 84, 32, 117, 110, 105, 113, 117, 101, 95, 107,
    101, 121, 44, 102, 117, 110, 99, 116, 105, 111, 110, 95, 110, 97, 109,
    101, 44, 112, 114, 105, 111, 114, 105, 116, 121, 44, 100, 97, 116, 97,
    32, 70, 82, 79, 77, 32>>

\* What add, done and replay do to build their statement: the limit they
\* pass to snprintf, the capacity of the buffer after the realloc, and what
\* snprintf returns (the length handed to sqlite3_prepare) and writes.
Format(q, limit, text) ==
  LET out == snprintf(limit, text) IN
  [limit |-> limit,
   capacity |-> IF limit > q.query_size THEN limit ELSE q.query_size,
   query_size |-> out.ret,
   query |-> out.str]

FormatAdd(q, unique_size, function_name_size, data_size) ==
  Format(q, ((unique_size + function_name_size + data_size) * 2)
              + GEARMAN_QUEUE_QUERY_BUFFER,
         InsertHead \o q.table \o InsertTail)

FormatDone(q, unique_size) ==
  Format(q, (unique_size * 2) + GEARMAN_QUEUE_QUERY_BUFFER,
         DeleteHead \o q.table \o DeleteTail)

FormatReplay(q) ==
  Format(q, GEARMAN_QUEUE_QUERY_BUFFER, SelectHead \o q.table)

\* _sqlite_query: prepare; on failure *sth is NULL and nothing is left to
\* finalize.
sqlite_query(m, stmt, f) ==
  LET issued == [m EXCEPT !.sql = @ \cup {stmt}] IN
  IF sqlite3_prepare(m, stmt, f)
  THEN [ret |-> SQLITE_OK, m |-> [issued EXCEPT !.sth = @ + 1]]
  ELSE [ret |-> SQLITE_ERROR, m |-> [issued EXCEPT !.dfail = TRUE]]

\* A lock without the test of the flag
sqlite_lock_nested(m, f) ==
  LET p == sqlite_query(m, "BEGIN", f) IN
  IF p.ret # SQLITE_OK
  THEN p
  ELSE
    LET st == sqlite3_step(p.m, "BEGIN", <<>>, f)
        fin == sqlite3_finalize(st.m)
    IN
    IF ~st.ok
    THEN [ret |-> SQLITE_ERROR, m |-> fin]
    ELSE [ret |-> SQLITE_OK, m |-> [fin EXCEPT !.q.in_trans = @ + 1]]

\* A lock that counts the transaction before the step of BEGIN is looked at
sqlite_lock_counts_first(m, f) ==
  IF m.q.in_trans # 0
  THEN [ret |-> SQLITE_OK, m |-> m]
  ELSE
    LET p == sqlite_query(m, "BEGIN", f) IN
    IF p.ret # SQLITE_OK
    THEN p
    ELSE
      LET st == sqlite3_step(p.m, "BEGIN", <<>>, f)
          fin == sqlite3_finalize([st.m EXCEPT !.q.in_trans = @ + 1])
      IN
      [ret |-> IF st.ok THEN SQLITE_OK ELSE SQLITE_ERROR, m |-> fin]

sqlite_lock(m, f) ==
  IF m.q.in_trans # 0
  THEN [ret |-> SQLITE_OK, m |-> m]
  ELSE
    LET p == sqlite_query(m, "BEGIN", f) IN
    IF p.ret # SQLITE_OK
    THEN p
    ELSE
      LET st == sqlite3_step(p.m, "BEGIN", <<>>, f)
          fin == sqlite3_finalize(st.m)
      IN
      IF ~st.ok
      THEN [ret |-> SQLITE_ERROR, m |-> fin]
      ELSE [ret |-> SQLITE_OK, m |-> [fin EXCEPT !.q.in_trans = @ + 1]]

\* A commit that clears the flag without running COMMIT
sqlite_commit_unstepped(m, f) ==
  [ret |-> SQLITE_OK, m |-> [m EXCEPT !.q.in_trans = 0]]

\* A commit that leaves the flag as it is after COMMIT succeeded
sqlite_commit_keeps_flag(m, f) ==
  IF m.q.in_trans = 0
  THEN [ret |-> SQLITE_OK, m |-> m]
  ELSE
    LET p == sqlite_query(m, "COMMIT", f) IN
    IF p.ret # SQLITE_OK
    THEN p
    ELSE
      LET st == sqlite3_step(p.m, "COMMIT", <<>>, f)
          fin == sqlite3_finalize(st.m)
      IN
      [ret |-> IF st.ok THEN SQLITE_OK ELSE SQLITE_ERROR, m |-> fin]

\* A commit that clears the flag before the step of COMMIT is looked at
sqlite_commit_clears_first(m, f) ==
  IF m.q.in_trans = 0
  THEN [ret |-> SQLITE_OK, m |-> m]
  ELSE
    LET p == sqlite_query(m, "COMMIT", f) IN
    IF p.ret # SQLITE_OK
    THEN p
    ELSE
      LET st == sqlite3_step(p.m, "COMMIT", <<>>, f)
          fin == sqlite3_finalize([st.m EXCEPT !.q.in_trans = 0])
      IN
      [ret |-> IF st.ok THEN SQLITE_OK ELSE SQLITE_ERROR, m |-> fin]

\* A commit that does not look at what the step of COMMIT returns
sqlite_commit_ignores_step(m, f) ==
  IF m.q.in_trans = 0
  THEN [ret |-> SQLITE_OK, m |-> m]
  ELSE
    LET p == sqlite_query(m, "COMMIT", f) IN
    IF p.ret # SQLITE_OK
    THEN p
    ELSE
      LET st == sqlite3_step(p.m, "COMMIT", <<>>, f)
          fin == sqlite3_finalize(st.m)
      IN
      [ret |-> SQLITE_OK,
       m |-> IF st.ok THEN [fin EXCEPT !.q.in_trans = 0] ELSE fin]

sqlite_commit(m, f) ==
  IF m.q.in_trans = 0
  THEN [ret |-> SQLITE_OK, m |-> m]
  ELSE
    LET p == sqlite_query(m, "COMMIT", f) IN
    IF p.ret # SQLITE_OK
    THEN p
    ELSE
      LET st == sqlite3_step(p.m, "COMMIT", <<>>, f)
          fin == sqlite3_finalize(st.m)
      IN
      IF ~st.ok
      THEN [ret |-> SQLITE_ERROR, m |-> fin]
      ELSE [ret |-> SQLITE_OK, m |-> [fin EXCEPT !.q.in_trans = 0]]

\* The query buffer grows when the statement needs more than it holds.
GrowQuery(m, query_size, f) ==
  IF query_size > m.q.query_size
  THEN IF f = Fail("query", "realloc")
       THEN [ok |-> FALSE, m |-> m]
       ELSE [ok |-> TRUE, m |-> [m EXCEPT !.q.query_size = query_size,
                                          !.h.query = query_size]]
  ELSE [ok |-> TRUE, m |-> m]

sqlite_add(m0, unique, unique_size, function_name, function_name_size, data, data_size, priority, f) ==
  LET lk == sqlite_lock(m0, f) IN
  IF lk.ret # SQLITE_OK
  THEN [ret |-> GEARMAN_QUEUE_ERROR, m |-> lk.m]
  ELSE
    LET query_size == ((unique_size + function_name_size + data_size) * 2)
                        + GEARMAN_QUEUE_QUERY_BUFFER
        gb == GrowQuery(lk.m, query_size, f)
    IN
    IF ~gb.ok
    THEN [ret |-> GEARMAN_MEMORY_ALLOCATION_FAILURE, m |-> gb.m]
    ELSE
      LET pq == sqlite_query(gb.m, "INSERT", f) IN
      IF pq.ret # SQLITE_OK
      THEN [ret |-> GEARMAN_QUEUE_ERROR, m |-> pq.m]
      ELSE
        LET row == [priority |-> sqlite3_bind_int(priority),
                    unique_key |-> sqlite3_bind_text(unique, unique_size),
                    function_name |->
                      sqlite3_bind_text(function_name, function_name_size),
                    data |-> sqlite3_bind_blob(data, data_size)]
            st == sqlite3_step(pq.m, "INSERT", row, f)
            fin == sqlite3_finalize(st.m)
        IN
        IF ~st.ok
        THEN [ret |-> GEARMAN_QUEUE_ERROR, m |-> fin]
        ELSE
          LET cm == sqlite_commit(fin, f) IN
          IF cm.ret # SQLITE_OK
          THEN [ret |-> GEARMAN_QUEUE_ERROR, m |-> cm.m]
          ELSE [ret |-> GEARMAN_SUCCESS, m |-> cm.m]

\* A flush that commits the open transaction
sqlite_flush_commits(m0) ==
  [ret |-> GEARMAN_SUCCESS, m |-> sqlite_commit(m0, NoFail).m]

sqlite_flush(m0) == [ret |-> GEARMAN_SUCCESS, m |-> m0]

sqlite_done(m0, unique, unique_size, f) ==
  LET lk == sqlite_lock(m0, f) IN
  IF lk.ret # SQLITE_OK
  THEN [ret |-> GEARMAN_QUEUE_ERROR, m |-> lk.m]
  ELSE
    LET query_size == (unique_size * 2) + GEARMAN_QUEUE_QUERY_BUFFER
        gb == GrowQuery(lk.m, query_size, f)
    IN
    IF ~gb.ok
    THEN [ret |-> GEARMAN_MEMORY_ALLOCATION_FAILURE, m |-> gb.m]
    ELSE
      LET pq == sqlite_query(gb.m, "DELETE", f) IN
      IF pq.ret # SQLITE_OK
      THEN [ret |-> GEARMAN_QUEUE_ERROR, m |-> pq.m]
      ELSE
        LET st == sqlite3_step(pq.m, "DELETE",
                               sqlite3_bind_text(unique, unique_size), f)
            fin == sqlite3_finalize(st.m)
        IN
        IF ~st.ok
        THEN [ret |-> GEARMAN_QUEUE_ERROR, m |-> fin]
        ELSE
          LET cm == sqlite_commit(fin, f) IN
          IF cm.ret # SQLITE_OK
          THEN [ret |-> GEARMAN_QUEUE_ERROR, m |-> cm.m]
          ELSE [ret |-> GEARMAN_SUCCESS, m |-> cm.m]

\* The column readers of a row of the result
sqlite3_column_text(c) == c.bytes
sqlite3_column_blob(c) == c.bytes
sqlite3_column_bytes(c) == Len(c.bytes)
sqlite3_column_int64(c) == c.int

\* The length of a value read as a C string
strlen(b) ==
  IF \E i \in DOMAIN b : b[i] = 0
  THEN (CHOOSE i \in DOMAIN b : b[i] = 0 /\ \A k \in 1..(i - 1) : b[k] # 0) - 1
  ELSE Len(b)

\* The payload sized by strlen instead of sqlite3_column_bytes
ReplayCall_strlen(r) ==
  [unique |-> sqlite3_column_text(r.unique_key),
   unique_size |-> sqlite3_column_bytes(r.unique_key),
   function_name |-> sqlite3_column_text(r.function_name),
   function_name_size |-> sqlite3_column_bytes(r.function_name),
   data |-> SubSeq(sqlite3_column_blob(r.data), 1, strlen(sqlite3_column_blob(r.data))),
   data_size |-> strlen(sqlite3_column_blob(r.data)),
   priority |-> sqlite3_column_int64(r.priority)]

\* The add_fn call replay makes for a row.
ReplayCall(r) ==
  [unique |-> sqlite3_column_text(r.unique_key),
   unique_size |-> sqlite3_column_bytes(r.unique_key),
   function_name |-> sqlite3_column_text(r.function_name),
   function_name_size |-> sqlite3_column_bytes(r.function_name),
   \* malloc(data_size) and memcpy of data_size bytes of the blob
   data |-> SubSeq(sqlite3_column_blob(r.data), 1, sqlite3_column_bytes(r.data)),
   data_size |-> sqlite3_column_bytes(r.data),
   priority |-> sqlite3_column_int64(r.priority)]

\* The loop going on to the next row after add_fn failed
RECURSIVE ReplayLoop_continue(_, _, _, _, _, _)
ReplayLoop_continue(m, order, i, cb, failAt, out) ==
  IF i > Len(order) \/ failAt = i
  THEN [ret |-> GEARMAN_SUCCESS,
        m |-> sqlite3_finalize(IF failAt = i THEN [m EXCEPT !.dfail = TRUE] ELSE m),
        out |-> out]
  ELSE ReplayLoop_continue(m, order, i + 1, cb, failAt,
         Append(out, [call |-> ReplayCall(order[i]), gret |-> cb[i]]))

\* The while loop of replay over the rows in the order the driver yields them:
\* `cb[i]` is what add_fn returns for the i-th row, `failAt` the step that
\* returns an error instead of a row or SQLITE_DONE (0: none).
RECURSIVE ReplayLoop(_, _, _, _, _, _)
ReplayLoop(m, order, i, cb, failAt, out) ==
  IF i > Len(order) \/ failAt = i
  THEN [ret |-> GEARMAN_SUCCESS,
        m |-> sqlite3_finalize(IF failAt = i THEN [m EXCEPT !.dfail = TRUE] ELSE m),
        out |-> out]
  ELSE
    LET gret == cb[i]
        calls == Append(out, [call |-> ReplayCall(order[i]), gret |-> gret])
    IN
    IF gret # GEARMAN_SUCCESS
    THEN [ret |-> gret, m |-> sqlite3_finalize(m), out |-> calls]
    ELSE ReplayLoop(m, order, i + 1, cb, failAt, calls)

\* A replay that takes the transaction as add and done do
sqlite_replay_locked(m0, order, cb, f, failAt) ==
  LET lk == sqlite_lock(m0, f)
      gb == GrowQuery(lk.m, GEARMAN_QUEUE_QUERY_BUFFER, f)
  IN
  IF ~gb.ok
  THEN [ret |-> GEARMAN_MEMORY_ALLOCATION_FAILURE, m |-> gb.m, out |-> <<>>]
  ELSE
    LET pq == sqlite_query(gb.m, "SELECT", f) IN
    IF pq.ret # SQLITE_OK
    THEN [ret |-> GEARMAN_QUEUE_ERROR, m |-> pq.m, out |-> <<>>]
    ELSE ReplayLoop(pq.m, order, 1, cb,
                    IF f = Fail("SELECT", "step") THEN failAt ELSE 0, <<>>)

sqlite_replay(m0, order, cb, f, failAt) ==
  LET gb == GrowQuery(m0, GEARMAN_QUEUE_QUERY_BUFFER, f) IN
  IF ~gb.ok
  THEN [ret |-> GEARMAN_MEMORY_ALLOCATION_FAILURE, m |-> gb.m, out |-> <<>>]
  ELSE
    LET pq == sqlite_query(gb.m, "SELECT", f) IN
    IF pq.ret # SQLITE_OK
    THEN [ret |-> GEARMAN_QUEUE_ERROR, m |-> pq.m, out |-> <<>>]
    ELSE ReplayLoop(pq.m, order, 1, cb,
                    IF f = Fail("SELECT", "step") THEN failAt ELSE 0, <<>>)

----------------------------------------------------------------------------
\* Public definitions

\* sqlite3_close: refused while a statement is live; closing rolls an open
\* transaction back.  sqlite3_close(NULL) does nothing.
sqlite3_close(m) ==
  IF m.q.db = "open" /\ m.sth = 0
  THEN [m EXCEPT !.q.db = "closed", !.rows = m.disk, !.dbt = FALSE]
  ELSE m

\* free(queue)
FreeQueue(m) ==
  [m EXCEPT !.h.queue = "freed", !.h.frees = @ + 1]

gearman_queue_libsqlite3_deinit(m) ==
  FreeQueue(sqlite3_close([m EXCEPT !.g.fn_arg = "NULL"]))

\* The while loop of init over the options of the module.  `ret` is "" while
\* init goes on.
RECURSIVE ParseOptions(_, _, _)
ParseOptions(m, opts, f) ==
  IF opts = <<>>
  THEN [ret |-> "", m |-> m]
  ELSE
    LET o == Head(opts) IN
    IF o.name = "db"
    THEN IF f = Fail("db", "open")
         THEN \* deinit, then sqlite3_errmsg(queue->db) and free(queue) again
              LET d == gearman_queue_libsqlite3_deinit(
                         [m EXCEPT !.q.db = "open", !.dfail = TRUE])
              IN [ret |-> GEARMAN_QUEUE_ERROR,
                  m |-> FreeQueue([d EXCEPT !.h.uaf = TRUE])]
         ELSE ParseOptions([m EXCEPT !.q.db = "open"], Tail(opts), f)
    ELSE IF o.name = "table"
    THEN ParseOptions([m EXCEPT !.q.table =
                                  snprintf(SQLITE_MAX_TABLE_SIZE, o.value).str],
                      Tail(opts), f)
    ELSE [ret |-> GEARMAN_QUEUE_ERROR, m |-> gearman_queue_libsqlite3_deinit(m)]

\* The while loop of init over the rows of sqlite_master, `scan` being the
\* names in the order the driver yields them: the value `table` is left with.
RECURSIVE ScanCatalog(_, _, _, _, _)
ScanCatalog(m, scan, i, failAt, table) ==
  IF i > Len(scan) \/ failAt = i
  THEN [table |-> table, ok |-> failAt # i]
  ELSE IF strcasecmp(m.q.table, scan[i]) = 0
       THEN [table |-> scan[i], ok |-> TRUE]
       ELSE ScanCatalog(m, scan, i + 1, failAt, scan[i])

\* NULL, as the value of the local `table`
NullTable == <<>>

RegisterCallbacks(m) ==
  [m EXCEPT !.g.add = TRUE, !.g.flush = TRUE, !.g.done = TRUE, !.g.replay = TRUE]

gearman_queue_libsqlite3_init(m0, conf, scan, f, failAt) ==
  IF f = Fail("queue", "malloc")
  THEN [ret |-> GEARMAN_MEMORY_ALLOCATION_FAILURE, m |-> m0]
  ELSE
    LET m1 == [m0 EXCEPT !.h.queue = "alloc", !.h.frees = 0,
                         !.q = [db |-> "NULL",
                                table |-> GEARMAN_QUEUE_SQLITE_DEFAULT_TABLE,
                                query_size |-> 0, in_trans |-> 0]]
    IN
    IF ~conf.module
    THEN [ret |-> GEARMAN_QUEUE_ERROR, m |-> FreeQueue(m1)]
    ELSE
      LET po == ParseOptions([m1 EXCEPT !.g.fn_arg = "queue"], conf.opts, f) IN
      IF po.ret # ""
      THEN po
      ELSE IF po.m.q.db = "NULL"
      THEN [ret |-> GEARMAN_QUEUE_ERROR, m |-> gearman_queue_libsqlite3_deinit(po.m)]
      ELSE
        LET pq == sqlite_query(po.m, "MASTER", f) IN
        IF pq.ret # SQLITE_OK
        THEN [ret |-> GEARMAN_QUEUE_ERROR, m |-> gearman_queue_libsqlite3_deinit(pq.m)]
        ELSE
          LET sc == ScanCatalog(pq.m, scan, 1,
                                IF f = Fail("MASTER", "step") THEN failAt ELSE 0,
                                NullTable)
              fin == sqlite3_finalize(IF sc.ok THEN pq.m
                                      ELSE [pq.m EXCEPT !.dfail = TRUE])
          IN
          IF ~sc.ok  \* sqlite3_finalize returns the error of the failed step
          THEN [ret |-> GEARMAN_QUEUE_ERROR, m |-> gearman_queue_libsqlite3_deinit(fin)]
          ELSE IF sc.table # NullTable
          THEN [ret |-> GEARMAN_SUCCESS, m |-> RegisterCallbacks(fin)]
          ELSE
            LET cq == sqlite_query(fin, "CREATE", f) IN
            IF cq.ret # SQLITE_OK
            THEN [ret |-> GEARMAN_QUEUE_ERROR,
                  m |-> gearman_queue_libsqlite3_deinit(cq.m)]
            ELSE
              LET st == sqlite3_step(cq.m, "CREATE", CreateTableSQL, f)
                  cfin == sqlite3_finalize(st.m)
              IN
              IF ~st.ok
              THEN [ret |-> GEARMAN_QUEUE_ERROR, m |-> cfin]
              ELSE [ret |-> GEARMAN_SUCCESS, m |-> RegisterCallbacks(cfin)]

----------------------------------------------------------------------------
\* The state machine

NoQueue == [db |-> "NULL", table |-> <<>>, query_size |-> 0, in_trans |-> 0]
NoCallbacks ==
  [fn_arg |-> "NULL", add |-> FALSE, flush |-> FALSE, done |-> FALSE,
   replay |-> FALSE]
EmptyHeap == [queue |-> "none", frees |-> 0, uaf |-> FALSE, query |-> 0]

Call(op, ret, unique, m, found) ==
  [op |-> op, ret |-> ret, unique |-> unique, dfail |-> m.dfail,
   sql |-> m.sql, found |-> found]

\* The stores the process can be started on: with or without the queue's
\* table (made by an earlier run, under a name of another case), with or
\* without a table of somebody else.
QueueTable == [name |-> UpperTable, columns |-> CreateTableSQL]
SomeTable == [name |-> OtherTable, columns |-> OtherColumns]
Catalogs == {{}, {SomeTable}, {QueueTable, SomeTable}}

\* The configurations init is given.
Option(n, v) == [name |-> n, value |-> v]
Confs ==
  {[module |-> FALSE, opts |-> <<>>],
   [module |-> TRUE, opts |-> <<>>],
   [module |-> TRUE, opts |-> <<Option("db", <<47>>)>>],
   [module |-> TRUE, opts |-> <<Option("db", <<47>>), Option("table", MixedTable)>>],
   [module |-> TRUE, opts |-> <<Option("db", <<47>>), Option("verbose", <<>>)>>],
   [module |-> TRUE, opts |-> <<Option("verbose", <<>>)>>]}

\* The orders in which the driver can yield the elements of a bag / a set
BagOrders(B) ==
  LET n == BagCardinality(B) IN
  {s \in [1..n -> BagToSet(B)] :
     \A r \in BagToSet(B) : Cardinality({i \in 1..n : s[i] = r}) = B[r]}
SetOrders(S) ==
  {s \in [1..Cardinality(S) -> S] : \A x \in S : \E i \in DOMAIN s : s[i] = x}

CallbackReturns ==
  {GEARMAN_SUCCESS, GEARMAN_MEMORY_ALLOCATION_FAILURE, GEARMAN_JOB_QUEUE_FULL}

Install(m) ==
  /\ queue' = m.q
  /\ rows' = m.rows
  /\ disk' = m.disk
  /\ db_trans' = m.dbt
  /\ open_sth' = m.sth
  /\ catalog' = m.cat
  /\ gearman' = m.g
  /\ heap' = m.h

Init ==
  /\ catalog \in Catalogs
  /\ disk = EmptyBag
  /\ rows = EmptyBag
  /\ db_trans = FALSE
  /\ queue = NoQueue
  /\ gearman = NoCallbacks
  /\ heap = EmptyHeap
  /\ open_sth = 0
  /\ pc = "down"
  /\ last = Call("boot", "", <<>>, [dfail |-> FALSE, sql |-> {}], FALSE)
  /\ delivered = <<>>
  /\ acked = <<>>
  /\ removed = {}
  /\ epoch = 0

InitFails ==
  {NoFail, Fail("queue", "malloc"), Fail("db", "open"),
   Fail("MASTER", "prepare"), Fail("MASTER", "step"),
   Fail("CREATE", "prepare"), Fail("CREATE", "step")}

\* gearman_queue_libsqlite3_init.  The path that frees the handle twice is
\* undefined: it returns, or the allocator aborts the process.
InitStep ==
  /\ pc = "down"
  /\ \E conf \in Confs, f \in InitFails,
        scan \in SetOrders({e.name : e \in catalog}),
        failAt \in 1..(Cardinality(catalog) + 1),
        ub \in {"return", "abort"} :
       \E r \in {gearman_queue_libsqlite3_init(Start, conf, scan, f, failAt)} :
       LET abort == r.m.h.frees > 1 /\ ub = "abort" IN
       /\ Install(r.m)
       /\ pc' = IF abort THEN "aborted"
                ELSE IF r.ret = GEARMAN_SUCCESS THEN "up" ELSE "failed"
       /\ last' = Call("init", IF abort THEN "SIGABRT" ELSE r.ret, <<>>, r.m, FALSE)
  /\ delivered' = <<>>
  /\ UNCHANGED <<acked, removed, epoch>>

\* gearman_queue_libsqlite3_deinit, at shutdown
DeinitStep ==
  /\ pc = "up"
  /\ \E m \in {gearman_queue_libsqlite3_deinit(Start)} :
     /\ Install(m)
     /\ last' = Call("deinit", GEARMAN_SUCCESS, <<>>, m, FALSE)
  /\ pc' = "stopped"
  /\ delivered' = <<>>
  /\ UNCHANGED <<acked, removed, epoch>>

AddFails ==
  {NoFail, Fail("BEGIN", "prepare"), Fail("BEGIN", "step"),
   Fail("query", "realloc"), Fail("INSERT", "prepare"), Fail("INSERT", "step"),
   Fail("COMMIT", "prepare"), Fail("COMMIT", "step")}

AddStep ==
  /\ pc = "up"
  /\ \E j \in Jobs, f \in AddFails :
       \E r \in {sqlite_add(Start, j.unique, Len(j.unique), j.function_name,
                           Len(j.function_name), j.data, Len(j.data),
                           j.priority, f)} :
       /\ Install(r.m)
       /\ last' = Call("add", r.ret, j.unique, r.m, KeyIn(rows, j.unique))
       /\ acked' = IF r.ret = GEARMAN_SUCCESS
                   THEN (j.unique :> j) @@ acked
                   ELSE acked
       /\ removed' = removed \ {j.unique}
  /\ delivered' = <<>>
  /\ UNCHANGED <<pc, epoch>>

FlushStep ==
  /\ pc = "up"
  /\ \E r \in {sqlite_flush(Start)} :
     /\ Install(r.m)
     /\ last' = Call("flush", r.ret, <<>>, r.m, FALSE)
  /\ delivered' = <<>>
  /\ UNCHANGED <<pc, acked, removed, epoch>>

DoneFails ==
  {NoFail, Fail("BEGIN", "prepare"), Fail("BEGIN", "step"),
   Fail("query", "realloc"), Fail("DELETE", "prepare"), Fail("DELETE", "step"),
   Fail("COMMIT", "prepare"), Fail("COMMIT", "step")}

DoneStep ==
  /\ pc = "up"
  /\ \E unique \in Uniques, f \in DoneFails :
       \E r \in {sqlite_done(Start, unique, Len(unique), f)} :
       /\ Install(r.m)
       /\ last' = Call("done", r.ret, unique, r.m, KeyIn(rows, unique))
       /\ acked' = [u \in DOMAIN acked \ {unique} |-> acked[u]]
       /\ removed' = IF r.ret = GEARMAN_SUCCESS
                     THEN removed \cup {unique} ELSE removed
  /\ delivered' = <<>>
  /\ UNCHANGED <<pc, epoch>>

\* What can happen to one replay over n rows: an allocation or a prepare
\* fails; the k-th step fails; add_fn fails at the i-th row with some status;
\* or nothing fails.  `cb[i]` is what add_fn returns for the i-th row.
ReplayRuns(n) ==
  {[f |-> f, failAt |-> 0, cb |-> [i \in 1..n |-> GEARMAN_SUCCESS]] :
     f \in {NoFail, Fail("query", "realloc"), Fail("SELECT", "prepare")}}
  \cup {[f |-> Fail("SELECT", "step"), failAt |-> k,
         cb |-> [i \in 1..n |-> GEARMAN_SUCCESS]] : k \in 1..(n + 1)}
  \cup {[f |-> NoFail, failAt |-> 0,
         cb |-> [i \in 1..n |-> IF i = k THEN st ELSE GEARMAN_SUCCESS]] :
          k \in 1..n, st \in CallbackReturns \ {GEARMAN_SUCCESS}}

ReplayStep ==
  /\ pc = "up"
  /\ \E order \in BagOrders(rows) :
       \E run \in ReplayRuns(Len(order)) :
         \E r \in {sqlite_replay(Start, order, run.cb, run.f, run.failAt)} :
         /\ Install(r.m)
         /\ last' = Call("replay", r.ret, <<>>, r.m, FALSE)
         /\ delivered' = r.out
  /\ UNCHANGED <<pc, acked, removed, epoch>>

\* The process dies: the driver rolls the uncommitted transaction back when
\* the store is next opened, and the process's memory is gone.
Crash ==
  /\ epoch < MaxCrash
  /\ epoch' = epoch + 1
  /\ rows' = disk
  /\ db_trans' = FALSE
  /\ queue' = NoQueue
  /\ gearman' = NoCallbacks
  /\ heap' = EmptyHeap
  /\ open_sth' = 0
  /\ pc' = "down"
  /\ last' = Call("crash", "", <<>>, [dfail |-> FALSE, sql |-> {}], FALSE)
  /\ delivered' = <<>>
  /\ UNCHANGED <<catalog, disk, acked, removed>>

Next ==
  \/ InitStep
  \/ DeinitStep
  \/ AddStep
  \/ FlushStep
  \/ DoneStep
  \/ ReplayStep
  \/ Crash

Spec == Init /\ [][Next]_vars

----------------------------------------------------------------------------
\* The statement texts alone: the handle with a table name of each length
\* the option `table` can give it, and add, done and replay formatting their
\* statement for fields of several sizes into the buffer as it has grown.

\* The lengths of the values given to the option `table`
TableLens == {1, 13, 185, 186, 204, 205, 224, 225, 255, 300}
TableOptions == {[i \in 1..n |-> 116] : n \in TableLens}

\* unique_size, function_name_size and data_size
FieldSizes == {0, 1, 30}

Formatted(op, r) ==
  [op |-> op, limit |-> r.limit, capacity |-> r.capacity,
   query_size |-> r.query_size, written |-> Len(r.query)]

\* The machine before init, on an empty store
Boot ==
  [q |-> NoQueue, rows |-> EmptyBag, disk |-> EmptyBag, dbt |-> FALSE,
   sth |-> 0, dfail |-> FALSE, sql |-> {}, cat |-> {}, g |-> NoCallbacks,
   h |-> EmptyHeap]

\* The handle as init leaves it, given db and table, on an empty store
FmtInit ==
  /\ \E value \in TableOptions :
       \E r \in {gearman_queue_libsqlite3_init(Boot,
                    [module |-> TRUE,
                     opts |-> <<Option("db", <<47>>), Option("table", value)>>],
                    <<>>, NoFail, 0)} :
         /\ r.ret = GEARMAN_SUCCESS
         /\ queue = r.m.q
         /\ catalog = r.m.cat
         /\ gearman = r.m.g
         /\ heap = r.m.h
  /\ last = [op |-> "init"]
  /\ disk = EmptyBag
  /\ rows = EmptyBag
  /\ db_trans = FALSE
  /\ open_sth = 0
  /\ pc = "up"
  /\ delivered = <<>>
  /\ acked = <<>>
  /\ removed = {}
  /\ epoch = 0

\* The buffer as the realloc leaves it
Grown(r) ==
  /\ queue' = [queue EXCEPT !.query_size = r.capacity]
  /\ heap' = [heap EXCEPT !.query = r.capacity]
  /\ UNCHANGED <<catalog, disk, rows, db_trans, gearman, open_sth, pc,
                 delivered, acked, removed, epoch>>

FmtAdd ==
  \E unique_size \in FieldSizes, function_name_size \in FieldSizes,
        data_size \in FieldSizes :
       \E r \in {FormatAdd(queue, unique_size, function_name_size, data_size)} :
         /\ Grown(r)
         /\ last' = Formatted("add", r)

FmtDone ==
  \E unique_size \in FieldSizes :
       \E r \in {FormatDone(queue, unique_size)} :
         /\ Grown(r)
         /\ last' = Formatted("done", r)

FmtReplay ==
  \E r \in {FormatReplay(queue)} :
       /\ Grown(r)
       /\ last' = Formatted("replay", r)

FmtNext ==
  \/ FmtAdd
  \/ FmtDone
  \/ FmtReplay

FmtSpec == FmtInit /\ [][FmtNext]_vars

----------------------------------------------------------------------------
\* Properties

\* The add_fn call that hands job j back as it was given to add.
Expected(j) ==
  [unique |-> j.unique, unique_size |-> Len(j.unique),
   function_name |-> j.function_name,
   function_name_size |-> Len(j.function_name),
   data |-> j.data, data_size |-> Len(j.data), priority |-> j.priority]

\* The last call was a replay that ran to its end: no allocation, driver
\* call or add_fn call of it failed.
ReplayRanThrough ==
  /\ last.op = "replay"
  /\ last.ret = GEARMAN_SUCCESS
  /\ ~last.dfail

Deliveries(j) == {i \in DOMAIN delivered : delivered[i].call = Expected(j)}

\* C1 (durability): a job whose add returned success, and for which done has
\* not been invoked since, is among the committed rows at every moment, so
\* that a crash, which discards the uncommitted transaction, cannot lose it;
\* and every replay that runs through, the one after a crash and restart
\* included, delivers it.
C1_Durability ==
  \A u \in DOMAIN acked :
    /\ \E r \in BagToSet(disk) : ReplayCall(r) = Expected(acked[u])
    /\ ReplayRanThrough => Deliveries(acked[u]) # {}

\* A replay after a crash and a restart delivers a job added before the crash:
\* the query buffer is as replay sizes it, and every add and done that gets
\* as far as its statement leaves a larger one, so that no add has stored a
\* row since the restart.
C1_Witness ==
  /\ ReplayRanThrough
  /\ epoch > 0
  /\ queue.query_size = GEARMAN_QUEUE_QUERY_BUFFER
  /\ \E u \in DOMAIN acked : Deliveries(acked[u]) # {}

\* C2 (round trip): after a successful add, a replay that runs through calls
\* add_fn exactly once for the job's unique key, with the unique key, function
\* name, priority and payload, and their sizes, that were given to add,
\* whatever the order in which the rows come.
C2_RoundTrip ==
  ReplayRanThrough =>
    \A u \in DOMAIN acked :
      /\ Cardinality({i \in DOMAIN delivered : delivered[i].call.unique = u}) = 1
      /\ Cardinality(Deliveries(acked[u])) = 1

\* Two jobs, one of them with the empty payload, come back from one replay,
\* the job with the payload of two bytes last.
C2_Witness ==
  /\ ReplayRanThrough
  /\ Len(delivered) = 2
  /\ Cardinality(DOMAIN acked) = 2
  /\ delivered[1].call.data_size = 0
  /\ delivered[2].call.data = <<0, 255>>
  /\ delivered[2].call.priority = GEARMAN_JOB_PRIORITY_HIGH

\* C3: a done that returns success removes the row of its unique key and
\* leaves every other row as it was, and no replay delivers a unique key whose
\* last done succeeded (no add having been invoked for it since).
C3_DoneRemovesRow ==
  /\ [][(last'.op = "done" /\ last'.ret = GEARMAN_SUCCESS) =>
          /\ ~KeyIn(rows', last'.unique)
          /\ BagToSet(rows') \subseteq BagToSet(rows)
          /\ \A r \in BagToSet(rows) :
               r.unique_key.bytes # last'.unique =>
                 CopiesIn(r, rows') = CopiesIn(r, rows)]_vars
  /\ [](last.op = "replay" =>
          \A i \in DOMAIN delivered : delivered[i].call.unique \notin removed)

\* A done has just removed a stored row and left another one in the table.
C3_Witness ==
  /\ last.op = "done"
  /\ last.ret = GEARMAN_SUCCESS
  /\ last.found
  /\ last.unique \in removed
  /\ rows # EmptyBag

\* C4: a done for a unique key the table does not hold leaves the rows as
\* they are and, when no allocation or driver call of it fails, returns
\* success; a done repeated after a successful done of the same key changes
\* no row.
C4_DoneOfAbsentKey ==
  [][/\ (last'.op = "done" /\ ~KeyIn(rows, last'.unique)) =>
          /\ rows' = rows
          /\ (~last'.dfail /\ last'.ret # GEARMAN_MEMORY_ALLOCATION_FAILURE)
               => last'.ret = GEARMAN_SUCCESS
     /\ (/\ last.op = "done" /\ last.ret = GEARMAN_SUCCESS
         /\ last'.op = "done" /\ last'.unique = last.unique) => rows' = rows]_vars

\* A done of a key that is not stored returned success, the table holding
\* another row.
C4_Witness ==
  /\ last.op = "done"
  /\ last.ret = GEARMAN_SUCCESS
  /\ ~last.found
  /\ rows # EmptyBag

\* C5: an add for a unique key the table holds returns an error and changes no
\* row, and the table never holds two rows under one unique key.
C5_DuplicateRejected ==
  /\ [][(last'.op = "add" /\ KeyIn(rows, last'.unique)) =>
          (last'.ret # GEARMAN_SUCCESS /\ rows' = rows)]_vars
  /\ [](\A r \in BagToSet(rows) :
          /\ CopiesIn(r, rows) = 1
          /\ \A x \in BagToSet(rows) : x.unique_key = r.unique_key => x = r)

\* An add of a stored key got as far as its INSERT and returned an error.
C5_Witness ==
  /\ last.op = "add"
  /\ last.found
  /\ last.ret = GEARMAN_QUEUE_ERROR
  /\ "INSERT" \in last.sql
  /\ "COMMIT" \notin last.sql
  /\ KeyIn(rows, last.unique)

\* C6, as claimed: an init that gets past its scan of the catalog issues
\* CREATE exactly when no table of the catalog matches the configured name
\* without regard to case.
C6_CreateIffNoMatch ==
  [][(last'.op = "init" /\ (last'.ret = GEARMAN_SUCCESS \/ "CREATE" \in last'.sql)) =>
        ("CREATE" \in last'.sql
           <=> \A e \in catalog : strcasecmp(e.name, queue'.table) # 0)]_vars

\* C7, as claimed: after an init that returned an error the connection is
\* closed, the handle is freed, queue_fn_arg is NULL and no callback is set.
C7_InitFailureTearsDown ==
  (last.op = "init" /\ last.ret \in {GEARMAN_QUEUE_ERROR,
                                      GEARMAN_MEMORY_ALLOCATION_FAILURE}) =>
    /\ queue.db # "open"
    /\ heap.queue # "alloc"
    /\ gearman.fn_arg = "NULL"
    /\ ~(gearman.add \/ gearman.flush \/ gearman.done \/ gearman.replay)

\* C8, as claimed: an add, done, replay or init one of whose driver calls
\* failed does not return success.
C8_DriverFailureReturned ==
  (last.op \in {"add", "done", "replay", "init"} /\ last.dfail) =>
    last.ret # GEARMAN_SUCCESS

\* The calls of the last replay are calls for rows of the table, no row
\* being handed over more often than the table holds it.
VisitsRows ==
  /\ \A i \in DOMAIN delivered :
       \E r \in BagToSet(rows) : delivered[i].call = ReplayCall(r)
  /\ \A r \in BagToSet(rows) :
       Cardinality({i \in DOMAIN delivered : delivered[i].call = ReplayCall(r)})
         <= CopiesIn(r, rows)

\* C9: replay calls add_fn once per row as long as add_fn returns success;
\* the first failure of add_fn is the last call, and replay returns its
\* status; the statement is finalized; and when add_fn fails nowhere, and no
\* allocation or driver call of replay does, every row is handed over and
\* replay returns success.
C9_ReplayStopsAtFailure ==
  last.op = "replay" =>
    LET n == Len(delivered) IN
    /\ VisitsRows
    /\ \A i \in 1..(n - 1) : delivered[i].gret = GEARMAN_SUCCESS
    /\ (n > 0 /\ delivered[n].gret # GEARMAN_SUCCESS) => last.ret = delivered[n].gret
    /\ open_sth = 0
    /\ (/\ \A i \in 1..n : delivered[i].gret = GEARMAN_SUCCESS
        /\ ~last.dfail
        /\ last.ret # GEARMAN_MEMORY_ALLOCATION_FAILURE)
         => (last.ret = GEARMAN_SUCCESS /\ n = BagCardinality(rows))

\* add_fn failed at the first of two rows: one call, its status returned.
C9_Witness ==
  /\ last.op = "replay"
  /\ BagCardinality(rows) = 2
  /\ Len(delivered) = 1
  /\ delivered[1].gret = GEARMAN_JOB_QUEUE_FULL
  /\ last.ret = GEARMAN_JOB_QUEUE_FULL

\* C10: replay changes neither the rows, committed or seen by the connection,
\* nor the transaction flag nor the driver's transaction, and issues none of
\* BEGIN, COMMIT, INSERT and DELETE.
C10_ReplayReadOnly ==
  [][last'.op = "replay" =>
       /\ rows' = rows
       /\ disk' = disk
       /\ queue'.in_trans = queue.in_trans
       /\ db_trans' = db_trans
       /\ last'.sql \cap {"BEGIN", "COMMIT", "INSERT", "DELETE"} = {}]_vars

\* A replay ran, and handed rows over, with the flag left open by an earlier
\* call and a write of it not yet committed.
C10_Witness ==
  /\ last.op = "replay"
  /\ queue.in_trans = 1
  /\ rows # disk
  /\ delivered # <<>>

\* C11: flush returns success and leaves the rows, committed or seen by the
\* connection, the handle (its flag and the size of its query buffer), the
\* allocations and the driver's transaction as they were, and issues no
\* statement, in every state of an initialised handle.
C11_FlushNoOp ==
  [][last'.op = "flush" =>
       /\ last'.ret = GEARMAN_SUCCESS
       /\ rows' = rows
       /\ disk' = disk
       /\ queue' = queue
       /\ heap' = heap
       /\ db_trans' = db_trans
       /\ last'.sql = {}]_vars

\* A flush returned with the flag open, a write uncommitted and the buffer
\* grown by an earlier call.
C11_Witness ==
  /\ last.op = "flush"
  /\ last.ret = GEARMAN_SUCCESS
  /\ queue.in_trans = 1
  /\ rows # disk
  /\ queue.query_size > GEARMAN_QUEUE_QUERY_BUFFER

\* C12, as claimed: a call of add or done that finds the flag idle leaves it
\* open only when its COMMIT failed, so that every open flag goes back to a
\* failed COMMIT.
C12_OpenOnlyAfterCommitFailure ==
  [][(/\ last'.op \in {"add", "done"}
      /\ queue.in_trans = 0
      /\ queue'.in_trans # 0)
        => ("COMMIT" \in last'.sql /\ last'.dfail)]_vars

\* C12, amended: when add or done returns with the flag open, the call
\* returned an error after its lock: the query buffer could not grow, or a
\* driver call of INSERT, DELETE or COMMIT failed.
C12_OpenOnlyAfterFailure ==
  (last.op \in {"add", "done"} /\ queue.in_trans # 0) =>
    /\ last.ret # GEARMAN_SUCCESS
    /\ \/ last.ret = GEARMAN_MEMORY_ALLOCATION_FAILURE
       \/ last.dfail /\ last.sql \cap {"INSERT", "DELETE", "COMMIT"} # {}

\* A done took the transaction, its DELETE failed, and the flag is open
\* without a COMMIT having been issued.
C12_Witness ==
  /\ last.op = "done"
  /\ last.ret = GEARMAN_QUEUE_ERROR
  /\ last.sql = {"BEGIN", "DELETE"}
  /\ queue.in_trans = 1

\* C13, as claimed: the transaction an add or done commits holds the write
\* of that call alone: no write was pending when the call began, and the
\* committed rows change under the unique key of the call only.
C13_PerCallScope ==
  [][(last'.op \in {"add", "done"} /\ disk' # disk) =>
       /\ rows = disk
       /\ \A r \in BagToSet(disk) \cup BagToSet(disk') :
            r.unique_key.bytes # last'.unique =>
              CopiesIn(r, disk') = CopiesIn(r, disk)]_vars

\* The failure points of _sqlite_lock
LockFails == {NoFail, Fail("BEGIN", "prepare"), Fail("BEGIN", "step")}

\* C14: in every state of an initialised handle, lock called with the flag
\* open returns SQLITE_OK, issues no BEGIN and changes nothing; called with the
\* flag idle it issues BEGIN, the flag is open when it returns SQLITE_OK, and
\* a failed prepare or step of BEGIN makes it return an error with the flag
\* idle.  An add or done that got no further than a failed BEGIN returns an
\* error with the flag idle.
C14_Lock ==
  /\ pc = "up" =>
       \A f \in LockFails :
         LET r == sqlite_lock(Start, f) IN
         IF queue.in_trans # 0
         THEN r.ret = SQLITE_OK /\ "BEGIN" \notin r.m.sql /\ r.m = Start
         ELSE /\ "BEGIN" \in r.m.sql
              /\ r.ret = SQLITE_OK => (r.m.q.in_trans = 1 /\ r.m.dbt)
              /\ f = NoFail => r.ret = SQLITE_OK
              /\ f # NoFail => (r.ret # SQLITE_OK /\ r.m.q.in_trans = 0)
              /\ r.m.sth = open_sth
  /\ (last.op \in {"add", "done"} /\ last.sql = {"BEGIN"} /\ last.dfail) =>
       (last.ret = GEARMAN_QUEUE_ERROR /\ queue.in_trans = 0)

\* An add found the flag open: it issued its INSERT without a BEGIN, and the
\* flag is still open.
C14_Witness ==
  /\ last.op = "add"
  /\ last.sql = {"INSERT"}
  /\ queue.in_trans = 1

\* The failure points of _sqlite_commit
CommitFails == {NoFail, Fail("COMMIT", "prepare"), Fail("COMMIT", "step")}

\* C15: in every state of an initialised handle, commit called with the flag
\* idle returns SQLITE_OK, issues no COMMIT and changes nothing; called with
\* the flag open it issues COMMIT, the flag is idle and the rows are committed
\* when it returns SQLITE_OK, and a failed prepare or step of COMMIT makes it
\* return an error with the flag open and the committed rows as they were.
\* An add or done that issued COMMIT returns success with the flag idle, or
\* an error with the flag open.
C15_Commit ==
  /\ pc = "up" =>
       \A f \in CommitFails :
         LET r == sqlite_commit(Start, f) IN
         IF queue.in_trans = 0
         THEN r.ret = SQLITE_OK /\ "COMMIT" \notin r.m.sql /\ r.m = Start
         ELSE /\ "COMMIT" \in r.m.sql
              /\ r.ret = SQLITE_OK =>
                   (r.m.q.in_trans = 0 /\ ~r.m.dbt /\ r.m.disk = rows)
              /\ f = NoFail => r.ret = SQLITE_OK
              /\ f # NoFail =>
                   (r.ret # SQLITE_OK /\ r.m.q.in_trans = 1 /\ r.m.disk = disk)
              /\ r.m.sth = open_sth
  /\ (last.op \in {"add", "done"} /\ "COMMIT" \in last.sql) =>
       IF last.dfail
       THEN last.ret = GEARMAN_QUEUE_ERROR /\ queue.in_trans = 1
       ELSE last.ret = GEARMAN_SUCCESS /\ queue.in_trans = 0

\* The COMMIT of a done failed: an error is returned, the flag is open and
\* the DELETE is not committed.
C15_Witness ==
  /\ last.op = "done"
  /\ "COMMIT" \in last.sql
  /\ last.dfail
  /\ last.ret = GEARMAN_QUEUE_ERROR
  /\ queue.in_trans = 1
  /\ rows # disk

\* C16: in_trans is 0 or 1 in every state, and no call issues BEGIN when it
\* finds the flag open, whatever driver calls failed before.
C16_NoNestedBegin ==
  /\ [](queue.in_trans \in {0, 1})
  /\ [][(last'.op \in {"add", "done", "flush", "replay"} /\ "BEGIN" \in last'.sql)
          => queue.in_trans = 0]_vars

\* A done found the flag open, issued no BEGIN, and committed.
C16_Witness ==
  /\ last.op = "done"
  /\ last.sql = {"DELETE", "COMMIT"}
  /\ last.ret = GEARMAN_SUCCESS
  /\ queue.in_trans = 0

\* C17, as claimed: after deinit the connection is closed and neither the
\* handle nor the query buffer is allocated.
C17_DeinitReleasesAll ==
  last.op = "deinit" =>
    /\ queue.db # "open"
    /\ heap.queue # "alloc"
    /\ heap.query = 0

\* C19, as claimed: whatever path init took, the handle it allocated was
\* freed at most once and was not read after it was freed.
C19_HandleFreedOnce ==
  last.op = "init" => (heap.frees <= 1 /\ ~heap.uaf)

\* C20: an add or done that finds the flag open, and none of whose driver
\* calls and allocations fails, returns success with the flag idle, the
\* driver's transaction closed and every row committed; and whenever add or
\* done returns success the flag is idle.
C20_Recovery ==
  /\ [][(/\ last'.op \in {"add", "done"}
          /\ queue.in_trans # 0
          /\ ~last'.dfail
          /\ last'.ret # GEARMAN_MEMORY_ALLOCATION_FAILURE)
            => /\ last'.ret = GEARMAN_SUCCESS
               /\ queue'.in_trans = 0
               /\ ~db_trans'
               /\ disk' = rows']_vars
  /\ []((last.op \in {"add", "done"} /\ last.ret = GEARMAN_SUCCESS)
          => queue.in_trans = 0)

\* An add found the flag left open by an earlier, failed call, issued no
\* BEGIN, and returned success with the flag idle and two rows committed.
C20_Witness ==
  /\ last.op = "add"
  /\ last.sql = {"INSERT", "COMMIT"}
  /\ last.ret = GEARMAN_SUCCESS
  /\ queue.in_trans = 0
  /\ BagCardinality(disk) = 2

\* C18, as claimed: the statement add, done or replay formats fits, with its
\* terminating zero, in the limit given to snprintf, so that all of it is
\* written, and the length handed to the driver is not above the capacity of
\* the buffer.
C18_StatementFits ==
  last.op \in {"add", "done", "replay"} =>
    /\ last.query_size < last.limit
    /\ last.written = last.query_size
    /\ last.query_size <= last.capacity

====
